---- MODULE Spec2Model ----
(***************************************************************************)
(* Model of crates/parsing/src/parser.rs: the token cursor, the layout     *)
(* stack and the event log with its node markers.  Indices are 0-based as  *)
(* in the source; TLA+ sequences are 1-based, so entry i of a Vec is       *)
(* element i + 1 of the sequence that models it.                           *)
(***************************************************************************)
EXTENDS Integers, Sequences, FiniteSets

VARIABLES input, index, layouts, events, markers, call, aborted, hist, pc

vars == <<input, index, layouts, events, markers, call, aborted, hist, pc>>

(***************************************************************************)
(* Bounds of the model.                                                    *)
(***************************************************************************)
MaxTokens == 2
MaxLine == 2
MaxColumn == 2
MaxDepth == 2
MaxEvents == 3
MaxMarkers == 2
MaxLookahead == 1
MaxNodeEvents == 4
ApiMaxSize == 3

(***************************************************************************)
(* Value types.                                                            *)
(***************************************************************************)
Sentinel == "Sentinel"
EndOfFile == "EndOfFile"
ValueDeclaration == "ValueDeclaration"
Upper == "Upper"
LeftParenthesis == "LeftParenthesis"

TokenKinds == {Upper, LeftParenthesis}
NodeKinds == {ValueDeclaration, Sentinel}

LayoutKind == {"Root", "Module", "Instance", "Parenthesis"}

\* A position of the source text: lines hold MaxColumn characters and a
\* line break, which fixes the byte offset of a (line, column) pair.
Position(line, column) ==
    [offset |-> (line - 1) * (MaxColumn + 1) + (column - 1),
     line |-> line, column |-> column]

Positions == {Position(l, c) : l \in 1..MaxLine, c \in 1..MaxColumn}

Layout(kind, position) == [kind |-> kind, position |-> position]

EventStart(kind) == [type |-> "Start", kind |-> kind]
EventToken(kind) == [type |-> "Token", kind |-> kind]
EventFinish == [type |-> "Finish"]

\* A marker bound to the slot after its Start.
NodeMarker_next(i) == [index |-> i + 1, defused |-> FALSE, live |-> TRUE]

\* NodeMarker::new: the marker remembers its index and carries an armed bomb.
\* live is FALSE once the marker has been discarded.
NodeMarker(i) == [index |-> i, defused |-> FALSE, live |-> TRUE]

(***************************************************************************)
(* The token source.  A token is a kind and a position; the lexer emits    *)
(* tokens in text order, so offsets (and with them lines) increase.        *)
(***************************************************************************)
Tokens == [kind : TokenKinds, position : Positions]

InTextOrder(s) ==
    \A i \in 1..Len(s) : \A j \in 1..Len(s) :
        i < j => s[i].position.offset < s[j].position.offset

Inputs ==
    {s \in UNION {[1..n -> Tokens] : n \in 0..MaxTokens} : InTextOrder(s)}

Input_len(inp) == Len(inp)

\* kind(index): the end-of-input sentinel for an index out of range.
Input_kind(inp, i) == IF i < Len(inp) THEN inp[i + 1].kind ELSE EndOfFile

\* position(index) has no value out of range.
Input_position_ok(inp, i) == i < Len(inp)
Input_position(inp, i) == inp[i + 1].position

(***************************************************************************)
(* Pure parts of the parser.                                               *)
(***************************************************************************)
\* A Root context that counts its line from the second line.
RootLayout_below == Layout("Root", [offset |-> 0, line |-> 2, column |-> 1])

RootLayout == Layout("Root", [offset |-> 0, line |-> 1, column |-> 1])

is_eof_at(inp, idx) == idx = Input_len(inp)

nth_at_index(inp, idx, offset) == Input_kind(inp, idx + offset)

current_at(inp, idx) == nth_at_index(inp, idx, 0)

\* The outcome of a layout predicate: it either panics or returns a boolean.
Returns(b) == [panic |-> FALSE, value |-> b]
Panics == [panic |-> TRUE, value |-> FALSE]

\* layout_done with a strict comparison for Instance.
layout_done_match_strict(kind, position, anchor) ==
    CASE kind = "Root" -> Panics
      [] kind = "Module" -> Returns(FALSE)
      [] kind = "Instance" -> Returns(position.column < anchor.column)
      [] kind = "Parenthesis" -> Returns(FALSE)

layout_done_match(kind, position, anchor) ==
    CASE kind = "Root" -> Panics
      [] kind = "Module" -> Returns(FALSE)
      [] kind = "Instance" -> Returns(position.column <= anchor.column)
      [] kind = "Parenthesis" -> Returns(FALSE)

\* group_done that ends a Module group at any column from the anchor on.
group_done_match_indent(kind, position, anchor) ==
    CASE kind = "Root" -> Panics
      [] kind = "Module" -> Returns(position.column >= anchor.column)
      [] kind = "Instance" -> Returns(position.column <= anchor.column)
      [] kind = "Parenthesis" -> Returns(FALSE)

\* group_done that applies the offside rule inside parentheses.
group_done_match_parenthesis(kind, position, anchor) ==
    CASE kind = "Root" -> Panics
      [] kind = "Module" -> Returns(position.column = anchor.column)
      [] kind = "Instance" -> Returns(position.column <= anchor.column)
      [] kind = "Parenthesis" -> Returns(position.column <= anchor.column)

\* group_done that answers on Root instead of panicking.
group_done_match_root(kind, position, anchor) ==
    CASE kind = "Root" -> Returns(FALSE)
      [] kind = "Module" -> Returns(position.column = anchor.column)
      [] kind = "Instance" -> Returns(position.column <= anchor.column)
      [] kind = "Parenthesis" -> Returns(FALSE)

\* group_done with the Instance comparison used for Module.
group_done_match_offside(kind, position, anchor) ==
    CASE kind = "Root" -> Panics
      [] kind = "Module" -> Returns(position.column <= anchor.column)
      [] kind = "Instance" -> Returns(position.column <= anchor.column)
      [] kind = "Parenthesis" -> Returns(FALSE)

group_done_match(kind, position, anchor) ==
    CASE kind = "Root" -> Panics
      [] kind = "Module" -> Returns(position.column = anchor.column)
      [] kind = "Instance" -> Returns(position.column <= anchor.column)
      [] kind = "Parenthesis" -> Returns(FALSE)

layout_done_outcome(inp, idx, lays) ==
    IF is_eof_at(inp, idx) THEN Returns(TRUE)
    ELSE IF ~Input_position_ok(inp, idx) THEN Panics
    ELSE IF Len(lays) = 0 THEN Panics
    ELSE LET position == Input_position(inp, idx)
             layout == lays[Len(lays)]
         IN  IF ~(position.line >= layout.position.line) THEN Panics
             ELSE layout_done_match(layout.kind, position, layout.position)

group_done_outcome(inp, idx, lays) ==
    IF is_eof_at(inp, idx) THEN Returns(TRUE)
    ELSE IF ~Input_position_ok(inp, idx) THEN Panics
    ELSE IF Len(lays) = 0 THEN Panics
    ELSE LET position == Input_position(inp, idx)
             layout == lays[Len(lays)]
         IN  IF ~(position.line >= layout.position.line) THEN Panics
             ELSE group_done_match(layout.kind, position, layout.position)

(***************************************************************************)
(* The record of the last call: the operation, its arguments and what it   *)
(* returned.  hist collects facts about the calls made so far.             *)
(***************************************************************************)
Call(op, arg, kind, ret, retKind) ==
    [op |-> op, arg |-> arg, kind |-> kind, ret |-> ret, retKind |-> retKind]

NoKind == "-"

HistInit == [reused |-> FALSE, nonleaf |-> FALSE, bare |-> FALSE,
             sentinelEnd |-> FALSE, unbalanced |-> FALSE, ends |-> 0]

Armed(m) == m.live /\ ~m.defused

NoMarkerArmed == \A m \in 1..Len(markers) : markers[m].defused

SomeMarkerArmed == \E m \in 1..Len(markers) : Armed(markers[m])

(***************************************************************************)
(* Parser::new                                                             *)
(***************************************************************************)
new(inp) ==
    /\ input = inp
    /\ index = 0
    /\ layouts = <<RootLayout>>
    /\ events = <<>>
    /\ markers = <<>>
    /\ call = Call("new", 0, NoKind, FALSE, NoKind)
    /\ aborted = FALSE
    /\ hist = HistInit

(***************************************************************************)
(* Parser::is_eof                                                          *)
(***************************************************************************)
is_eof ==
    /\ ~aborted
    /\ call' = Call("is_eof", 0, NoKind, is_eof_at(input, index), NoKind)
    /\ UNCHANGED <<input, index, layouts, events, markers, aborted, hist>>

(***************************************************************************)
(* Layout engine                                                           *)
(***************************************************************************)
\* A push at the bottom of the stack.
layout_start_push_bottom(lays, kind, position) == <<Layout(kind, position)>> \o lays

\* A context anchored at the start of the text instead of the current token.
layout_start_push_origin(lays, kind, position) ==
    Append(lays, Layout(kind, [offset |-> 0, line |-> 1, column |-> 1]))

layout_start_push(lays, kind, position) == Append(lays, Layout(kind, position))

layout_start(kind) ==
    /\ ~aborted
    /\ call' = Call("layout_start", 0, kind, FALSE, NoKind)
    /\ IF is_eof_at(input, index) \/ ~Input_position_ok(input, index)
       THEN /\ aborted' = TRUE
            /\ UNCHANGED layouts
       ELSE /\ layouts' = layout_start_push(layouts, kind, Input_position(input, index))
            /\ UNCHANGED aborted
    /\ UNCHANGED <<input, index, events, markers, hist>>

\* Vec::pop: removes the last entry, does nothing on an empty vector.
pop(v) == IF Len(v) = 0 THEN v ELSE SubSeq(v, 1, Len(v) - 1)

layout_end ==
    /\ ~aborted
    /\ call' = Call("layout_end", 0, NoKind, FALSE, NoKind)
    /\ layouts' = pop(layouts)
    /\ hist' = [hist EXCEPT !.unbalanced = @ \/ Len(layouts) <= 1]
    /\ UNCHANGED <<input, index, events, markers, aborted>>

layout_done ==
    /\ ~aborted
    /\ LET outcome == layout_done_outcome(input, index, layouts)
       IN  /\ call' = Call("layout_done", 0, NoKind, outcome.value, NoKind)
           /\ aborted' = outcome.panic
    /\ UNCHANGED <<input, index, layouts, events, markers, hist>>

group_done ==
    /\ ~aborted
    /\ LET outcome == group_done_outcome(input, index, layouts)
       IN  /\ call' = Call("group_done", 0, NoKind, outcome.value, NoKind)
           /\ aborted' = outcome.panic
    /\ UNCHANGED <<input, index, layouts, events, markers, hist>>

(***************************************************************************)
(* Event builder and node markers                                          *)
(***************************************************************************)
start ==
    /\ ~aborted
    /\ call' = Call("start", Len(markers) + 1, NoKind, FALSE, NoKind)
    /\ LET i == Len(events)
       IN  /\ events' = Append(events, EventStart(Sentinel))
           /\ markers' = Append(markers, NodeMarker(i))
    /\ UNCHANGED <<input, index, layouts, aborted, hist>>

\* A bomb that stays armed.
defuse_never(ms, m) == ms

defuse(ms, m) == [ms EXCEPT ![m].defused = TRUE]

\* end(kind) without the Finish.
end_events_open(evs, i, kind) == [evs EXCEPT ![i + 1] = EventStart(kind)]

\* An end() that puts its Finish at the front of the log.
end_events_front(evs, i, kind) ==
    <<EventFinish>> \o [evs EXCEPT ![i + 1] = EventStart(kind)]

\* An end() that appends a Finish only for a slot still holding the placeholder.
end_events_idem(evs, i, kind) ==
    IF evs[i + 1] = EventStart(Sentinel)
    THEN Append([evs EXCEPT ![i + 1] = EventStart(kind)], EventFinish)
    ELSE [evs EXCEPT ![i + 1] = EventStart(kind)]

\* The event log after end(kind) of a marker whose slot holds a Start.
end_events(evs, i, kind) ==
    Append([evs EXCEPT ![i + 1] = EventStart(kind)], EventFinish)

end(m, kind) ==
    /\ ~aborted
    /\ m \in 1..Len(markers)
    /\ markers[m].live
    /\ call' = Call("end", m, kind, FALSE, NoKind)
    /\ markers' = defuse(markers, m)
    /\ LET i == markers[m].index
       IN  IF i < Len(events) /\ events[i + 1].type = "Start"
           THEN /\ events' = end_events(events, i, kind)
                /\ UNCHANGED aborted
           ELSE /\ aborted' = TRUE
                /\ UNCHANGED events
    /\ hist' = [hist EXCEPT !.reused = @ \/ markers[m].defused,
                            !.sentinelEnd = @ \/ kind = Sentinel,
                            !.ends = @ + 1]
    /\ UNCHANGED <<input, index, layouts>>

\* A cancel() that removes the last event whichever marker it belongs to.
cancel_removes_always(evs, i) == Len(evs) > 0

\* A comparison with the length instead of the last index.
cancel_removes_len(evs, i) == Len(evs) > 0 /\ i = Len(evs)

\* cancel() removes the last event when the marker's index is the last index.
cancel_removes(evs, i) == Len(evs) > 0 /\ i = Len(evs) - 1

cancel(m) ==
    /\ ~aborted
    /\ m \in 1..Len(markers)
    /\ markers[m].live
    /\ call' = Call("cancel", m, NoKind, FALSE, NoKind)
    /\ markers' = defuse(markers, m)
    /\ LET i == markers[m].index
       IN  IF Len(events) = 0
           THEN \* events.len() - 1 underflows: a panic where overflow checks
                \* are compiled in, a wrapped value that matches no index
                \* where they are not.
                /\ aborted' \in BOOLEAN
                /\ UNCHANGED events
           ELSE IF cancel_removes(events, i)
           THEN /\ events' = pop(events)
                /\ aborted' = (events[Len(events)] # EventStart(Sentinel))
           ELSE UNCHANGED <<events, aborted>>
    /\ hist' = [hist EXCEPT !.reused = @ \/ markers[m].defused,
                            !.nonleaf = @ \/ ~cancel_removes(events, markers[m].index)]
    /\ UNCHANGED <<input, index, layouts>>

\* A marker goes out of scope: its DropBomb panics unless it was defused.
drop_panics(marker) == ~marker.defused

drop(m) ==
    /\ ~aborted
    /\ m \in 1..Len(markers)
    /\ markers[m].live
    /\ call' = Call("drop", m, NoKind, FALSE, NoKind)
    /\ markers' = [markers EXCEPT ![m].live = FALSE]
    /\ aborted' = drop_panics(markers[m])
    /\ UNCHANGED <<input, index, layouts, events, hist>>

(***************************************************************************)
(* Token cursor                                                            *)
(***************************************************************************)
nth(offset) ==
    /\ ~aborted
    /\ call' = Call("nth", offset, NoKind, FALSE, nth_at_index(input, index, offset))
    /\ UNCHANGED <<input, index, layouts, events, markers, aborted, hist>>

nth_at(offset, kind) ==
    /\ ~aborted
    /\ call' = Call("nth_at", offset, kind, nth_at_index(input, index, offset) = kind, NoKind)
    /\ UNCHANGED <<input, index, layouts, events, markers, aborted, hist>>

current == nth(0)

at(kind) == nth_at(0, kind)

\* A consume() that leaves the cursor where it is.
consume_index_stay(idx) == idx

\* A cursor that skips a token.
consume_index_skip(idx) == idx + 2

consume_index(idx) == idx + 1

consume_events(evs, kind) == Append(evs, EventToken(kind))

\* The state change of consume(), shared by consume() and eat().
consume_effect ==
    /\ index' = consume_index(index)
    /\ events' = consume_events(events, current_at(input, index))
    /\ hist' = [hist EXCEPT !.bare = @ \/ ~SomeMarkerArmed]

consume ==
    /\ ~aborted
    /\ call' = Call("consume", 0, NoKind, FALSE, NoKind)
    /\ consume_effect
    /\ UNCHANGED <<input, layouts, markers, aborted>>

\* An eat() that takes whatever token is current.
eat_matches_any(inp, idx, kind) == TRUE

eat_matches(inp, idx, kind) == nth_at_index(inp, idx, 0) = kind

eat(kind) ==
    /\ ~aborted
    /\ call' = Call("eat", 0, kind, eat_matches(input, index, kind), NoKind)
    /\ IF eat_matches(input, index, kind)
       THEN consume_effect
       ELSE UNCHANGED <<index, events, hist>>
    /\ UNCHANGED <<input, layouts, markers, aborted>>

(***************************************************************************)
(* Specifications.  The guards bound the counters the code leaves          *)
(* unbounded; the operations themselves are the ones above.  The cursor    *)
(* may run one step past the end of the token source.                      *)
(***************************************************************************)
EatKinds == TokenKinds \cup {EndOfFile}

\* A call made by a caller other than the test grammar leaves the grammar's
\* position alone.
ApiCall == pc = "api" /\ UNCHANGED pc

CursorQuery ==
    \/ ApiCall /\ is_eof
    \/ ApiCall /\ \E offset \in 0..MaxLookahead : nth(offset)
    \/ ApiCall /\ \E kind \in EatKinds : at(kind)

CursorAdvance(maxEvents) ==
    \/ ApiCall /\ index <= Input_len(input) /\ Len(events) < maxEvents /\ consume
    \/ ApiCall /\ index <= Input_len(input) /\ Len(events) < maxEvents
         /\ \E kind \in EatKinds : eat(kind)

LayoutStep(maxDepth) ==
    \/ ApiCall /\ Len(layouts) < maxDepth /\ \E kind \in LayoutKind : layout_start(kind)
    \/ ApiCall /\ layout_end
    \/ ApiCall /\ layout_done
    \/ ApiCall /\ group_done

MarkerStep(maxMarkers, maxStart, maxEnd) ==
    \/ ApiCall /\ Len(markers) < maxMarkers /\ Len(events) < maxStart /\ start
    \/ ApiCall /\ Len(events) < maxEnd
         /\ \E m \in 1..Len(markers) : \E kind \in NodeKinds : end(m, kind)
    \/ ApiCall /\ \E m \in 1..Len(markers) : cancel(m)
    \/ ApiCall /\ \E m \in 1..Len(markers) : drop(m)

\* Token sources for the specifications that do not look at positions:
\* the tokens stand one per line in the first column.
InputsByKind ==
    {s \in Inputs : \A i \in 1..Len(s) : s[i].position = Position(i, 1)}

\* Token sources for the specifications that do not look at kinds.
InputsByPosition ==
    {s \in Inputs : \A i \in 1..Len(s) : s[i].kind = Upper}

\* The layout engine over every placement of the tokens.
InitLayout == \E inp \in InputsByPosition : new(inp) /\ pc = "api"

NextLayout ==
    \/ LayoutStep(MaxDepth)
    \/ ApiCall /\ is_eof
    \/ ApiCall /\ index <= Input_len(input) /\ consume

SpecLayout == InitLayout /\ [][NextLayout]_vars

\* The event builder and the advancing cursor over every choice of token kinds.
InitMarker == \E inp \in InputsByKind : new(inp) /\ pc = "api"

NextMarker == MarkerStep(MaxMarkers, MaxEvents, MaxEvents) \/ CursorAdvance(MaxEvents)

SpecMarker == InitMarker /\ [][NextMarker]_vars

\* Every operation of the parser, in runs that keep the layout stack, the
\* event log and the markers together within ApiMaxSize entries.
\* Markers alone, on a parser over the empty token stream: start, end, cancel
\* and drop in every order, with room for two complete nodes in the log.
InitNodes == new(<<>>) /\ pc = "api"

NextNodes == MarkerStep(MaxMarkers, MaxNodeEvents, MaxNodeEvents)

SpecNodes == InitNodes /\ [][NextNodes]_vars

(***************************************************************************)
(* The test grammar (mod tests): parse_module and parse_value_declaration  *)
(* drive the parser; pc is the statement the grammar will execute next.    *)
(***************************************************************************)
ModuleKw == "ModuleKw"
WhereKw == "WhereKw"
RightParenthesis == "RightParenthesis"
Lower == "Lower"
Equal == "Equal"
Integer == "Integer"
Char == "Char"
Number == "Number"

MaxBody == 2

Token(kind, position) == [kind |-> kind, position |-> position]
TextPosition(offset, line, column) ==
    [offset |-> offset, line |-> line, column |-> column]

\* The tokens of "module Hello where".
ModuleHeader ==
    <<Token(ModuleKw, TextPosition(0, 1, 1)),
      Token(Upper, TextPosition(7, 1, 8)),
      Token(WhereKw, TextPosition(13, 1, 14))>>

\* The tokens of the text lexed by grammar_api_test.
TestInput ==
    <<Token(ModuleKw, TextPosition(0, 1, 1)),
      Token(Upper, TextPosition(7, 1, 8)),
      Token(WhereKw, TextPosition(13, 1, 14)),
      Token(Lower, TextPosition(19, 2, 1)),
      Token(Equal, TextPosition(25, 2, 7)),
      Token(Lower, TextPosition(27, 2, 9)),
      Token(Integer, TextPosition(35, 3, 3)),
      Token(Char, TextPosition(37, 3, 5)),
      Token(Number, TextPosition(41, 3, 9)),
      Token(Lower, TextPosition(46, 5, 1)),
      Token(Equal, TextPosition(52, 5, 7)),
      Token(LeftParenthesis, TextPosition(54, 5, 9)),
      Token(Lower, TextPosition(56, 6, 1)),
      Token(Integer, TextPosition(62, 7, 1)),
      Token(Char, TextPosition(65, 8, 1)),
      Token(Number, TextPosition(70, 9, 1)),
      Token(RightParenthesis, TextPosition(74, 10, 1))>>

\* The header and the first declaration of that text:
\* "module Hello where\nhello = world\n  0 'a' 1.2\n".
DeclarationInput == SubSeq(TestInput, 1, 9)

\* A module header followed by up to MaxBody tokens on the lines below it.
BodyKinds == {Upper, LeftParenthesis, RightParenthesis}
BodyPositions ==
    {TextPosition(l * (MaxColumn + 1) + (c - 1), l + 1, c) :
        l \in 1..MaxLine, c \in 1..MaxColumn}
Bodies ==
    {s \in UNION {[1..n -> [kind : BodyKinds, position : BodyPositions]] :
                     n \in 1..MaxBody} : InTextOrder(s)}
GrammarInputs ==
    {ModuleHeader \o body : body \in Bodies} \cup {TestInput, DeclarationInput}

\* The marker held by the running parse_value_declaration.
declaration_marker == Len(markers)

Goto(label) == pc' = label
Branch(then, else) == pc' = IF call'.ret THEN then ELSE else

parse_module ==
    \/ pc = "module" /\ eat(ModuleKw) /\ Goto("name")
    \/ pc = "where" /\ eat(WhereKw) /\ Goto("layout")
    \/ pc = "layout" /\ layout_start("Module") /\ Goto("declaration")
    \/ pc = "poll" /\ layout_done /\ Branch("leave", "declaration")
    \/ pc = "leave" /\ layout_end /\ Goto("done")

parse_module_name ==
    pc = "name" /\ eat(Upper) /\ Goto("where")

parse_value_declaration ==
    \/ pc = "declaration" /\ start /\ Goto("open")
    \/ pc = "open" /\ at(LeftParenthesis) /\ Branch("push", "close")
    \/ pc = "push" /\ layout_start("Parenthesis") /\ Goto("close")
    \/ pc = "close" /\ at(RightParenthesis) /\ Branch("pop", "consume")
    \/ pc = "pop" /\ layout_end /\ Goto("consume")
    \/ pc = "consume" /\ consume /\ Goto("group")
    \/ pc = "group" /\ group_done /\ Branch("end", "open")
    \/ pc = "end" /\ end(declaration_marker, ValueDeclaration) /\ Goto("drop")
    \/ pc = "drop" /\ drop(declaration_marker) /\ Goto("poll")

InitGrammar == \E inp \in GrammarInputs : new(inp) /\ pc = "module"

NextGrammar == parse_module \/ parse_module_name \/ parse_value_declaration

\* The test is one thread that runs to its end: a step that can be taken is
\* taken.
SpecGrammar == InitGrammar /\ [][NextGrammar]_vars /\ WF_vars(NextGrammar)

\* The layout API under arbitrary calls, and under the test grammar.
InitParenthesis == InitLayout \/ InitGrammar

NextParenthesis == NextLayout \/ NextGrammar

SpecParenthesis ==
    InitParenthesis /\ [][NextParenthesis]_vars /\ WF_vars(NextGrammar)

Init == \E inp \in InputsByKind : new(inp) /\ pc = "api"

Next ==
    \/ CursorQuery
    \/ CursorAdvance(ApiMaxSize - Len(layouts) - Len(markers))
    \/ LayoutStep(ApiMaxSize - Len(events) - Len(markers))
    \/ MarkerStep(ApiMaxSize, ApiMaxSize - Len(layouts) - Len(markers) - 1,
                  ApiMaxSize - Len(layouts) - Len(markers))

Spec == Init /\ [][Next]_vars

TypeOK ==
    /\ input \in Inputs \cup GrammarInputs
    /\ index \in 0..Input_len(input) + 1
    /\ aborted \in BOOLEAN
    /\ \A i \in 1..Len(layouts) : layouts[i].kind \in LayoutKind
    /\ \A i \in 1..Len(events) : events[i].type \in {"Start", "Token", "Finish"}
    /\ \A m \in 1..Len(markers) : markers[m].index \in 0..Len(events) + MaxMarkers

(***************************************************************************)
(* Shapes of the event log and of the layout stack.                        *)
(***************************************************************************)
Front(s) == SubSeq(s, 1, Len(s) - 1)

CountOf(evs, n, type) == Cardinality({i \in 1..n : evs[i].type = type})

\* Open nodes after the first n events.
OpenAfter(evs, n) == CountOf(evs, n, "Start") - CountOf(evs, n, "Finish")

WellFormed(evs) ==
    /\ \A n \in 0..Len(evs) : OpenAfter(evs, n) >= 0
    /\ OpenAfter(evs, Len(evs)) = 0

TokensNested(evs) ==
    \A i \in 1..Len(evs) :
        evs[i].type \in {"Token", "Error"} => OpenAfter(evs, i - 1) >= 1

NoSentinel(evs) ==
    \A i \in 1..Len(evs) : evs[i].type = "Start" => evs[i].kind # Sentinel

MatchedLog(evs) == WellFormed(evs) /\ TokensNested(evs) /\ NoSentinel(evs)

TopIs(kind) == Len(layouts) > 0 /\ layouts[Len(layouts)].kind = kind

Anchor == layouts[Len(layouts)].position

AtToken == index < Len(input)

Here == Input_position(input, index)

Consumed(c) == c.op = "consume" \/ (c.op = "eat" /\ c.ret)

\* The markers have been used as the one-shot handles they are meant to be,
\* cancelled only as leaves, and tokens were consumed inside open nodes.
Disciplined ==
    /\ ~hist.reused
    /\ ~hist.nonleaf
    /\ ~hist.bare
    /\ ~hist.sentinelEnd

(***************************************************************************)
(* C1 as stated: whenever no marker is armed, the event log is a matched   *)
(* sequence of Start...Finish pairs with every Token inside a pair and no  *)
(* Start left with the Sentinel kind.                                      *)
(***************************************************************************)
C1_AnyCallsMatchedLog ==
    (~aborted /\ NoMarkerArmed) => MatchedLog(events)

(***************************************************************************)
(* C1 as amended: the log is matched whenever no marker is armed, provided *)
(* every marker was ended or cancelled at most once, every cancel was a    *)
(* leaf cancel, every token was consumed while a marker was armed, and no  *)
(* end() was given the Sentinel kind.                                      *)
(***************************************************************************)
C1_DisciplinedMatchedLog ==
    (~aborted /\ NoMarkerArmed /\ Disciplined) => MatchedLog(events)

C1_Witness ==
    /\ ~aborted
    /\ NoMarkerArmed
    /\ Disciplined
    /\ Len(markers) >= 1
    /\ Len(events) = 3
    /\ \E i \in 1..Len(events) : events[i].type = "Token"

(***************************************************************************)
(* C2: consume() at end-of-input (index = len) aborts, appends no Token    *)
(* event and does not advance the index.                                   *)
(***************************************************************************)
C2_ConsumeAtEofAborts ==
    [][(is_eof_at(input, index) /\ call'.op = "consume")
          => (aborted' /\ events' = events /\ index' = index)]_vars

(***************************************************************************)
(* C3 as stated: in every reachable state the layout stack is non-empty    *)
(* and its bottom entry is the Root context of Parser::new.                *)
(***************************************************************************)
RootAtBottom == Len(layouts) >= 1 /\ layouts[1] = RootLayout

C3_AlwaysRootAtBottom == RootAtBottom

(***************************************************************************)
(* C3 as amended: the layout stack is non-empty with the Root context at   *)
(* its bottom in every state reached without a layout_end() on a stack of  *)
(* depth one or zero.                                                      *)
(***************************************************************************)
C3_BalancedRootAtBottom == ~hist.unbalanced => RootAtBottom

C3_Witness ==
    /\ call.op = "layout_end"
    /\ ~hist.unbalanced
    /\ layouts = <<RootLayout>>
    /\ index = 1

(***************************************************************************)
(* C4 as stated: layout_done() and group_done() abort whenever the top     *)
(* context is Root, at end-of-input too.                                   *)
(***************************************************************************)
PolledOnRoot == call.op \in {"layout_done", "group_done"} /\ TopIs("Root")

C4_RootPollAlwaysAborts == PolledOnRoot => aborted

(***************************************************************************)
(* C4 as amended: polled while the top context is Root, layout_done() and  *)
(* group_done() return true at end-of-input (index = len) and abort in     *)
(* every other cursor state.                                               *)
(***************************************************************************)
C4_RootPollAbortsUnlessEof ==
    PolledOnRoot =>
        IF is_eof_at(input, index) THEN ~aborted /\ call.ret = TRUE ELSE aborted

C4_Witness == PolledOnRoot /\ AtToken /\ aborted /\ call.op = "group_done"

(***************************************************************************)
(* C5: a marker is armed from the start() that created it until its first  *)
(* end or cancel, disarmed from then on, and discarding a marker aborts    *)
(* exactly when the marker is armed.                                       *)
(***************************************************************************)
Disarms(c, m) == c.op \in {"end", "cancel"} /\ c.arg = m

C5_MarkerLifecycle ==
    [][/\ \A m \in 1..Len(markers) :
            /\ m \in 1..Len(markers')
            /\ markers[m].defused => markers'[m].defused
            /\ Disarms(call', m) => markers'[m].defused
            /\ (~markers[m].defused /\ ~Disarms(call', m)) => ~markers'[m].defused
       /\ call'.op = "start" =>
            /\ Len(markers') = Len(markers) + 1
            /\ Armed(markers'[call'.arg])
       /\ call'.op = "drop" => (aborted' <=> Armed(markers[call'.arg]))]_vars

C5_Witness ==
    /\ call.op = "drop"
    /\ ~aborted
    /\ markers[call.arg].defused
    /\ \E m \in 1..Len(markers) : Armed(markers[m])

(***************************************************************************)
(* C6: start() appends Start{Sentinel} to the log L; the new marker's      *)
(* end(K) right after it yields L ++ [Start{K}, Finish], its cancel()      *)
(* right after it yields L; index and layout stack stay as they were.      *)
(***************************************************************************)
C6_MarkerRoundTrip ==
    [][/\ call'.op = "start" =>
            /\ events' = Append(events, EventStart(Sentinel))
            /\ index' = index /\ layouts' = layouts /\ ~aborted'
       /\ (call.op = "start" /\ call'.op = "end" /\ call'.arg = call.arg) =>
            /\ events' = Front(events) \o <<EventStart(call'.kind), EventFinish>>
            /\ index' = index /\ layouts' = layouts /\ ~aborted'
       /\ (call.op = "start" /\ call'.op = "cancel" /\ call'.arg = call.arg) =>
            /\ events' = Front(events)
            /\ index' = index /\ layouts' = layouts /\ ~aborted']_vars

C6_Witness ==
    /\ call.op = "end"
    /\ ~aborted
    /\ Len(events) = 3
    /\ markers[call.arg].index = 1
    /\ events[2] = EventStart(ValueDeclaration)
    /\ events[3] = EventFinish

(***************************************************************************)
(* C7 as stated: cancel() removes the last event when that event is the    *)
(* not yet finished or cancelled marker's placeholder Start, and leaves    *)
(* the log unchanged in every other case.                                  *)
(***************************************************************************)
OwnStartIsLast(marker, evs) ==
    /\ ~marker.defused
    /\ Len(evs) > 0
    /\ marker.index = Len(evs) - 1
    /\ evs[Len(evs)] = EventStart(Sentinel)

C7_CancelRemovesOnlyOwnStart ==
    [][call'.op = "cancel" =>
          IF OwnStartIsLast(markers[call'.arg], events)
          THEN events' = Front(events)
          ELSE events' = events]_vars

(***************************************************************************)
(* C7 as amended: while no marker has been ended or cancelled twice,       *)
(* cancel() of an armed marker removes exactly the marker's placeholder    *)
(* Start if that is the last entry of the log, and otherwise leaves the    *)
(* log unchanged, the placeholder Start{Sentinel} staying in it.           *)
(***************************************************************************)
C7_OneShotCancel ==
    [][(call'.op = "cancel" /\ ~hist.reused /\ ~markers[call'.arg].defused) =>
          LET i == markers[call'.arg].index
          IN  /\ ~aborted'
              /\ i < Len(events)
              /\ events[i + 1] = EventStart(Sentinel)
              /\ IF i = Len(events) - 1
                 THEN events' = Front(events)
                 ELSE events' = events]_vars

C7_Witness ==
    /\ call.op = "cancel"
    /\ ~aborted
    /\ ~hist.reused
    /\ hist.nonleaf
    /\ markers[call.arg].index + 1 < Len(events)
    /\ events[markers[call.arg].index + 1] = EventStart(Sentinel)

(***************************************************************************)
(* C8: the index never decreases; a consume (also the one inside a         *)
(* matching eat) adds one to it and appends one Token event with the kind  *)
(* of the current token; no other operation changes the index or the       *)
(* token source, so nth(k) keeps its value between two consumes.           *)
(***************************************************************************)
KindAt(i) == IF i < Len(input) THEN input[i + 1].kind ELSE EndOfFile

C8_CursorMonotone ==
    [][/\ index' >= index
       /\ input' = input
       /\ Consumed(call') =>
            /\ index' = index + 1
            /\ events' = Append(events, EventToken(KindAt(index)))
       /\ ~Consumed(call') => index' = index
       /\ call'.op = "nth" => call'.retKind = KindAt(index + call'.arg)]_vars

C8_Witness ==
    /\ call.op = "nth"
    /\ call.arg = 0
    /\ call.retKind = LeftParenthesis
    /\ index = 1
    /\ events = <<EventToken(Upper)>>

(***************************************************************************)
(* C9: with an Instance context of anchor column C on top and a current    *)
(* token, layout_done() and group_done() both return whether the token's   *)
(* column is <= C.                                                         *)
(***************************************************************************)
C9_InstanceOffside ==
    (TopIs("Instance") /\ AtToken) =>
        LET offside == Here.column <= Anchor.column
        IN  /\ layout_done_outcome(input, index, layouts) = Returns(offside)
            /\ group_done_outcome(input, index, layouts) = Returns(offside)
            /\ call.op \in {"layout_done", "group_done"} =>
                 (~aborted /\ call.ret = offside)

C9_Witness ==
    /\ TopIs("Instance")
    /\ AtToken
    /\ call.op = "layout_done"
    /\ call.ret = TRUE
    /\ Here.column = Anchor.column
    /\ Here.line > Anchor.line

(***************************************************************************)
(* C10: with a Module context of anchor column C on top and a current      *)
(* token, group_done() returns whether the token's column equals C and     *)
(* layout_done() returns false; at end-of-input both return true.          *)
(***************************************************************************)
C10_ModuleGroup ==
    TopIs("Module") =>
        /\ AtToken =>
             /\ group_done_outcome(input, index, layouts)
                    = Returns(Here.column = Anchor.column)
             /\ layout_done_outcome(input, index, layouts) = Returns(FALSE)
             /\ call.op = "group_done" =>
                  (~aborted /\ call.ret = (Here.column = Anchor.column))
             /\ call.op = "layout_done" => (~aborted /\ call.ret = FALSE)
        /\ is_eof_at(input, index) =>
             /\ group_done_outcome(input, index, layouts) = Returns(TRUE)
             /\ layout_done_outcome(input, index, layouts) = Returns(TRUE)
             /\ call.op \in {"layout_done", "group_done"} =>
                  (~aborted /\ call.ret = TRUE)

C10_Witness ==
    /\ TopIs("Module")
    /\ AtToken
    /\ call.op = "group_done"
    /\ call.ret = FALSE
    /\ Here.column < Anchor.column

(***************************************************************************)
(* C13: layout_start(kind) aborts at end-of-input (index = len) and leaves *)
(* the layout stack as it was; with a current token it pushes exactly one  *)
(* context of that kind anchored at the current token's position; index    *)
(* and event log are unchanged either way.                                 *)
(***************************************************************************)
C13_LayoutStart ==
    [][call'.op = "layout_start" =>
          /\ index' = index
          /\ events' = events
          /\ is_eof_at(input, index) => (aborted' /\ layouts' = layouts)
          /\ AtToken =>
               /\ ~aborted'
               /\ layouts' = Append(layouts, [kind |-> call'.kind,
                                              position |-> input[index + 1].position])]_vars

C13_Witness ==
    /\ call.op = "layout_start"
    /\ ~aborted
    /\ index = 1
    /\ Len(layouts) = 2
    /\ layouts[2] = Layout("Instance", Position(2, 2))

(***************************************************************************)
(* C14: for a token source in text order, whenever there is a current      *)
(* token its line is >= the anchor line of every context on the layout     *)
(* stack, and layout_done() / group_done() abort only for a Root or        *)
(* missing top context, never for the line assertion.                      *)
(***************************************************************************)
LinesNonDecreasing ==
    \A i \in 1..Len(input) : \A j \in 1..Len(input) :
        i <= j => input[i].position.line <= input[j].position.line

C14_LineNeverBeforeAnchor ==
    LinesNonDecreasing =>
        /\ AtToken =>
             \A i \in 1..Len(layouts) : Here.line >= layouts[i].position.line
        /\ (call.op \in {"layout_done", "group_done"} /\ aborted) =>
             (~AtToken \/ Len(layouts) = 0 \/ TopIs("Root"))

C14_Witness ==
    /\ call.op = "group_done"
    /\ ~aborted
    /\ AtToken
    /\ index = 1
    /\ Len(layouts) = 2
    /\ Anchor.line = 2
    /\ Here.line = 2

(***************************************************************************)
(* C15: eat(kind) returns whether the current token's kind is kind; when   *)
(* it returns true index and log change as by one consume(), when it       *)
(* returns false index, layout stack and log are unchanged.                *)
(***************************************************************************)
C15_EatIsConditionalConsume ==
    [][call'.op = "eat" =>
          /\ call'.ret = (KindAt(index) = call'.kind)
          /\ layouts' = layouts
          /\ IF call'.ret
             THEN /\ index' = index + 1
                  /\ events' = Append(events, EventToken(KindAt(index)))
             ELSE /\ index' = index
                  /\ events' = events]_vars

C15_Witness ==
    /\ call.op = "eat"
    /\ call.kind = LeftParenthesis
    /\ call.ret = TRUE
    /\ index = 2
    /\ events = <<EventToken(Upper), EventToken(LeftParenthesis)>>

(***************************************************************************)
(* C16: end(kind) of a marker whose index holds a Start entry changes the  *)
(* log only by rewriting the kind of that entry and appending one Finish:  *)
(* the log grows by exactly one entry and every other entry keeps its      *)
(* position and content; a second end() on the same marker appends a       *)
(* second Finish.                                                          *)
(***************************************************************************)
StartAt(evs, i) == i < Len(evs) /\ evs[i + 1].type = "Start"

C16_EndRewritesAndAppends ==
    [][call'.op = "end" =>
          LET i == markers[call'.arg].index
          IN  /\ StartAt(events, i) =>
                   /\ ~aborted'
                   /\ Len(events') = Len(events) + 1
                   /\ events'[i + 1] = EventStart(call'.kind)
                   /\ events'[Len(events')] = EventFinish
                   /\ \A j \in 1..Len(events) : j # i + 1 => events'[j] = events[j]
              /\ (call.op = "end" /\ call.arg = call'.arg /\ ~aborted) =>
                   /\ ~aborted'
                   /\ events' = Append([events EXCEPT ![i + 1] = EventStart(call'.kind)],
                                       EventFinish)]_vars

C16_Witness ==
    /\ call.op = "end"
    /\ ~aborted
    /\ hist.reused
    /\ events = <<EventStart(ValueDeclaration), EventFinish, EventFinish>>

(***************************************************************************)
(* C18: while every marker has been ended or cancelled at most once, each  *)
(* armed marker's index is within the log, the entry at that index is      *)
(* Start{Sentinel}, distinct armed markers have distinct indices, no end() *)
(* or cancel() has aborted, and cancel() removes no event other than the   *)
(* marker's own placeholder.                                               *)
(***************************************************************************)
ArmedMarkersOwnPlaceholders ==
    /\ \A m \in 1..Len(markers) :
         Armed(markers[m]) =>
           /\ markers[m].index < Len(events)
           /\ events[markers[m].index + 1] = EventStart(Sentinel)
    /\ \A m \in 1..Len(markers) : \A n \in 1..Len(markers) :
         (Armed(markers[m]) /\ Armed(markers[n]) /\ m # n) =>
           markers[m].index # markers[n].index

C18_OneShotMarkersSafe ==
    /\ [](~hist.reused =>
            /\ ArmedMarkersOwnPlaceholders
            /\ call.op \in {"end", "cancel"} => ~aborted)
    /\ [][(call'.op = "cancel" /\ ~hist'.reused) =>
            \/ events' = events
            \/ /\ events' = Front(events)
               /\ markers[call'.arg].index = Len(events) - 1
               /\ events[Len(events)] = EventStart(Sentinel)]_vars

C18_Witness ==
    /\ ~hist.reused
    /\ call.op = "cancel"
    /\ ~aborted
    /\ Len(markers) = 2
    /\ Armed(markers[1])
    /\ markers[2].defused
    /\ events = <<EventStart(Sentinel)>>

(***************************************************************************)
(* C19: in every reachable state the cursor index is <= the token count,   *)
(* so consume and eat never move the index past len().                     *)
(***************************************************************************)
C19_IndexWithinInput == index <= Len(input)

(***************************************************************************)
(* C20: if every cancel() was a leaf cancel and every marker was ended or  *)
(* cancelled at most once, then in whatever order the markers were ended,  *)
(* once no marker is armed the log has as many Start as Finish events,     *)
(* every prefix has at least as many Start as Finish, and the number of    *)
(* Start events is the number of end() calls made.                         *)
(***************************************************************************)
C20_EndsBalanceInAnyOrder ==
    (NoMarkerArmed /\ ~aborted /\ ~hist.reused /\ ~hist.nonleaf) =>
        /\ CountOf(events, Len(events), "Start") = CountOf(events, Len(events), "Finish")
        /\ \A n \in 0..Len(events) :
             CountOf(events, n, "Start") >= CountOf(events, n, "Finish")
        /\ CountOf(events, Len(events), "Start") = hist.ends

C20_Witness ==
    /\ NoMarkerArmed
    /\ ~aborted
    /\ ~hist.reused
    /\ ~hist.nonleaf
    /\ call.op = "end"
    /\ call.arg = 2
    /\ hist.ends = 2
    /\ markers[1].index = 0
    /\ markers[2].index = 1
    /\ events = <<EventStart(ValueDeclaration), EventStart(ValueDeclaration),
                  EventFinish, EventFinish>>

(***************************************************************************)
(* Helpers for the claims about the test grammar.                          *)
(***************************************************************************)
InDeclaration ==
    pc \in {"open", "push", "close", "pop", "consume", "group", "end", "drop"}

LayoutKinds == [i \in 1..Len(layouts) |-> layouts[i].kind]

\* The positions of the log holding an event of the given shape.
IndicesOf(evs, ev) == {i \in 1..Len(evs) : evs[i] = ev}

\* The log has exactly one ValueDeclaration Start...Finish pair and n Token
\* events between the two.
OneDeclarationOf(evs, n) ==
    /\ CountOf(evs, Len(evs), "Start") = 1
    /\ CountOf(evs, Len(evs), "Finish") = 1
    /\ \E s \in IndicesOf(evs, EventStart(ValueDeclaration)) :
       \E f \in IndicesOf(evs, EventFinish) :
          /\ s < f
          /\ \A i \in s + 1..f - 1 : evs[i].type = "Token"
          /\ f - s - 1 = n

DeclarationScenario(n) ==
    input = DeclarationInput =>
        /\ InDeclaration => LayoutKinds = <<"Root", "Module">>
        /\ (call.op = "group_done" /\ call.ret) => index = Len(input)
        /\ pc = "done" => OneDeclarationOf(events, n)

(***************************************************************************)
(* C11 as stated: on the tokens of "module Hello where", "hello = world"   *)
(* and the indented line "0 'a' 1.2" the layout stack is (Root, Module)    *)
(* while the declaration is parsed, group_done returns true only at        *)
(* end-of-input, and the final log has exactly one ValueDeclaration        *)
(* Start...Finish pair enclosing exactly five Token events.                *)
(***************************************************************************)
C11_DeclarationWrapsFiveTokens == DeclarationScenario(5)

(***************************************************************************)
(* C11 as amended: the same, the pair enclosing exactly six Token events   *)
(* (hello, =, world, 0, 'a', 1.2); the three header tokens precede it.     *)
(***************************************************************************)
C11_DeclarationWrapsSixTokens ==
    /\ DeclarationScenario(6)
    /\ (input = DeclarationInput /\ pc = "done") =>
          /\ SubSeq(events, 1, 3) =
               <<EventToken(ModuleKw), EventToken(Upper), EventToken(WhereKw)>>
          /\ events[4] = EventStart(ValueDeclaration)
          /\ events[Len(events)] = EventFinish

C11_Witness ==
    /\ input = DeclarationInput
    /\ pc = "done"
    /\ ~aborted
    /\ index = Len(input)
    /\ Len(events) = 11
    /\ LayoutKinds = <<"Root">>

(***************************************************************************)
(* C17: driven by the test grammar on a token stream with at least one     *)
(* token after the module header, each iteration of the declaration loop   *)
(* consumes exactly one token and never at end-of-input, the index never   *)
(* goes back, at most len() tokens are consumed, and the parse ends: it    *)
(* returns at end-of-input or aborts.                                      *)
(***************************************************************************)
C17_GrammarTerminates ==
    /\ [][pc = "consume" =>
            (call'.op = "consume" /\ index < Len(input) /\ index' = index + 1)]_vars
    /\ [][(pc \in {"open", "push", "close", "pop", "group"}) => (index' = index)]_vars
    /\ [][index' >= index]_vars
    /\ [](CountOf(events, Len(events), "Token") <= Len(input))
    /\ [](pc = "done" => (~aborted /\ index = Len(input)))
    /\ <>(pc = "done" \/ aborted)

C17_Witness ==
    /\ input = TestInput
    /\ pc = "done"
    /\ ~aborted
    /\ index = Len(input)
    /\ CountOf(events, Len(events), "Token") = Len(input)
    /\ CountOf(events, Len(events), "Finish") = 2

(***************************************************************************)
(* C12: while the top context is Parenthesis and the cursor is at a token, *)
(* layout_done() and group_done() return false whatever the token's        *)
(* column; in the test grammar, on the text of grammar_api_test, the       *)
(* declaration with "(" ... ")" over column-1 lines is not split: the      *)
(* stack goes to (Root, Module, Parenthesis) at the opening parenthesis    *)
(* and leaves that depth only through the layout_end() issued at the       *)
(* closing parenthesis, back to depth 2, and the log ends with two         *)
(* declarations.                                                           *)
(***************************************************************************)
InGrammar == pc # "api"

C12_ParenthesisIgnoresColumn ==
    /\ [][(call'.op \in {"layout_done", "group_done"}
             /\ TopIs("Parenthesis") /\ AtToken) =>
            (~aborted' /\ call'.ret = FALSE /\ layouts' = layouts)]_vars
    /\ [][(InGrammar /\ input = TestInput /\ Len(layouts') = 3 /\ Len(layouts) # 3) =>
            /\ call'.op = "layout_start"
            /\ KindAt(index) = LeftParenthesis
            /\ [i \in 1..3 |-> layouts'[i].kind] = <<"Root", "Module", "Parenthesis">>]_vars
    /\ [][(InGrammar /\ input = TestInput /\ Len(layouts) = 3 /\ Len(layouts') # 3) =>
            /\ call'.op = "layout_end"
            /\ pc = "pop"
            /\ KindAt(index) = RightParenthesis
            /\ Len(layouts') = 2]_vars
    /\ [](InGrammar /\ input = TestInput =>
            /\ CountOf(events, Len(events), "Start") <= 2
            /\ pc = "done" => CountOf(events, Len(events), "Start") = 2)

C12_Witness ==
    /\ InGrammar
    /\ input = TestInput
    /\ call.op = "group_done"
    /\ call.ret = FALSE
    /\ ~aborted
    /\ LayoutKinds = <<"Root", "Module", "Parenthesis">>
    /\ Here.column = 1
    /\ Here.column <= layouts[2].position.column
    /\ KindAt(index) = RightParenthesis

====
